---- MODULE Spec2Model ----
(***************************************************************************)
(* Model of utils/coco_annotator_utils.py: the three dataset operations    *)
(* create_dataset_from_annotations, create_dataset_split and               *)
(* create_dataset_split_balanced, run one call at a time against one       *)
(* output directory.                                                       *)
(*                                                                         *)
(* Representation.  An image record is [id]; its file is named by its id.  *)
(* An annotation is [id, image_id, category_id].  A split fraction is the  *)
(* exact rational num/den (the source holds binary floats; their rounding  *)
(* is not modelled).  Sequences are 1-based: split.num[1] is the source's  *)
(* split[0], supercategory[1] the source's supercategory[0].  output_dir is *)
(* passed with its trailing separator, as the source's concatenations      *)
(* (output_dir + 'images/') expect.                                        *)
(***************************************************************************)
EXTENDS Integers, Sequences, FiniteSets, TLC

\* ------------------------------------------------------------------ bounds
MaxImages == 3
MaxImagesRepeat == 2
MaxCalls == 2
NumCats == 2
SplitDen == 2
FineDen == 20
MaxSmallCount == 8
IdOffset == 10
OtherNumTestImages == 1

\* -------------------------------------------------------- program constants
\* the default of num_testimages_per_class
DefaultNumTestImages == 7
\* the literal the scan compares the counters with
SkipCount == 7

\* ----------------------------------------------------------- python helpers
Max(a, b) == IF a >= b THEN a ELSE b
Min(a, b) == IF a <= b THEN a ELSE b

\* int(n/d) for d > 0: truncation toward zero
PyIntRoundsUp(n, d) == IF n >= 0 THEN (n + d - 1) \div d ELSE -((-n) \div d)
PyInt(n, d) == IF n >= 0 THEN n \div d ELSE -((-n) \div d)

\* a slice bound as Python normalises it: negative counts from the end, then clamp
SliceBound(k, len) == IF k < 0 THEN Max(k + len, 0) ELSE Min(k, len)

\* s[a:b]
PySlice(s, a, b) ==
  LET lo == SliceBound(a, Len(s))
      hi == SliceBound(b, Len(s))
  IN  IF lo >= hi THEN <<>> ELSE SubSeq(s, lo + 1, hi)

\* x in list
InList(x, list) == \E j \in 1..Len(list) : list[j] = x

\* [f(e) for e in list] for the two projections the source uses
Ids(imgs) == [j \in 1..Len(imgs) |-> imgs[j].id]
CategoryIds(annos) == [j \in 1..Len(annos) |-> annos[j].category_id]

\* ------------------------------------------------------------- the dataset
Image(i) == [id |-> IdOffset + i]
Anno(k, img, c) == [id |-> k, image_id |-> img, category_id |-> c]
CatName(c) == CASE c = 1 -> "scalpel" [] c = 2 -> "forceps" [] OTHER -> "other"
Category(c) == [id |-> c, name |-> CatName(c), supercategory |-> "", color |-> "#000000"]

\* the annotations one image may carry, as the sequence of their category ids:
\* none, one of each of two categories, and as many of category 1 as SkipCount
Heavy == [k \in 1..SkipCount |-> 1]
Profiles == {<<>>, <<2, 1>>, Heavy}

RECURSIVE AnnosFrom(_, _, _)
AnnosFrom(prof, i, k) ==
  IF i > Len(prof) THEN <<>>
  ELSE [j \in 1..Len(prof[i]) |-> Anno(k + j, IdOffset + i, prof[i][j])]
       \o AnnosFrom(prof, i + 1, k + Len(prof[i]))

\* an annotation whose image_id is no image's id
Orphan(k) == Anno(k, IdOffset, 1)

Dataset(prof, orphan) ==
  LET annos == AnnosFrom(prof, 1, 0)
  IN  [images |-> [i \in 1..Len(prof) |-> Image(i)],
       annotations |-> IF orphan THEN Append(annos, Orphan(Len(annos) + 1)) ELSE annos,
       categories |-> [c \in 1..NumCats |-> Category(c)]]

Datasets(n_max, orphans) ==
  {Dataset(prof, orphan) : prof \in UNION {[1..n -> Profiles] : n \in 0..n_max},
                           orphan \in orphans}

\* ------------------------------------------------------------------ inputs
JsonArgs == {"annotations.json", "nofile.json"}
IsFile(path) == path = "annotations.json"

\* sum(split) == 1
SumIsOne(s) == s.num[1] + s.num[2] + s.num[3] = s.den

\* split arguments in den-ths: every non-negative split that sums to 1, one that
\* sums to 1 with a negative fraction, and one that does not sum to 1
Splits(den) ==
  {s \in {[num |-> t, den |-> den] : t \in [1..3 -> 0..den]} : SumIsOne(s)}
  \cup {[num |-> <<den, -1, 1>>, den |-> den], [num |-> <<den, den, den>>, den |-> den]}

SupercategoryArgs == {<<FALSE, "">>, <<TRUE, "instrument">>}
NumTestArgs == {DefaultNumTestImages, OtherNumTestImages}

\* ------------------------------------------------------------------- state
VARIABLES
  data,                      \* the content of annotations.json
  missing,                   \* ids of the images whose source file does not exist
  client_calls,              \* how many calls the client makes
  dirs,                      \* the directories that exist; "." is output_dir
  copied,                    \* <<directory, image id>> of every image file in output_dir
  written,                   \* the JSON files written in output_dir, by name
  json_copied,               \* the annotation file is in output_dir
  pc, op, outcome, calls,    \* position, operation and result of the current or last call
  json_file, split, supercategory, num_testimages_per_class,
  num_images, num_train, num_val, num_test,
  shuffled_imgs, imgs_train, imgs_val, imgs_test, imgs_without_anno,
  cat_count,
  scanned,                   \* how many images of shuffled_imgs the scan has visited
  skipped,                   \* the images the scan left with `continue`
  todo                       \* the copies still to make: <<directory, image>>

envVars == <<data, missing, client_calls>>
fsVars == <<dirs, copied, written, json_copied>>
argVars == <<json_file, split, supercategory, num_testimages_per_class>>
sizeVars == <<num_images, num_train, num_val, num_test>>
listVars == <<shuffled_imgs, imgs_train, imgs_val, imgs_test>>
scanVars == <<imgs_without_anno, cat_count, scanned, skipped>>
localVars == <<sizeVars, listVars, scanVars, todo>>
vars == <<envVars, fsVars, pc, op, outcome, calls, argVars, localVars>>

NoFiles == [n \in {} |-> <<>>]
NoSplit == [num |-> <<0, 0, 0>>, den |-> 1]

\* at most one source image is missing
MissingSets(d) == {{}} \cup {{d.images[j].id} : j \in 1..Len(d.images)}

NoLocals ==
  /\ num_images = 0 /\ num_train = 0 /\ num_val = 0 /\ num_test = 0
  /\ shuffled_imgs = <<>> /\ imgs_train = <<>> /\ imgs_val = <<>> /\ imgs_test = <<>>
  /\ imgs_without_anno = <<>> /\ cat_count = <<>> /\ scanned = 0 /\ skipped = <<>>
  /\ todo = <<>>

InitWith(n_max, orphans, n_calls, pre_dirs) ==
  /\ data \in Datasets(n_max, orphans)
  /\ missing \in MissingSets(data)
  /\ client_calls = n_calls
  /\ dirs \in pre_dirs
  /\ copied = {} /\ written = NoFiles /\ json_copied = FALSE
  /\ pc = "idle" /\ op = "none" /\ outcome = "none" /\ calls = 0
  /\ json_file = "none" /\ split = NoSplit /\ supercategory = <<FALSE, "">>
  /\ num_testimages_per_class = DefaultNumTestImages
  /\ NoLocals

\* one call, on an absent or an already existing output_dir; every annotation
\* references an image
Init == InitWith(MaxImages, {FALSE}, 1, {{}, {"."}})

\* the locals of a call that has ended
ClearLocals ==
  /\ num_images' = 0 /\ num_train' = 0 /\ num_val' = 0 /\ num_test' = 0
  /\ shuffled_imgs' = <<>> /\ imgs_train' = <<>> /\ imgs_val' = <<>> /\ imgs_test' = <<>>
  /\ imgs_without_anno' = <<>> /\ cat_count' = <<>> /\ scanned' = 0 /\ skipped' = <<>>
  /\ todo' = <<>>

\* the call ends: it returns, or an exception leaves it
Finish(result) == pc' = "idle" /\ outcome' = result /\ ClearLocals

Called(name) == calls' = calls + 1 /\ op' = name

\* copy(src, dst): src must exist, and so must the directory of dst
CanCopy(dir, img) == img.id \notin missing /\ dir \in dirs

\* one iteration of a copy loop, on the head of todo
CopyHead ==
  LET dir == todo[1][1]
      img == todo[1][2]
  IN  IF CanCopy(dir, img)
      THEN /\ copied' = copied \cup {<<dir, img.id>>}
           /\ todo' = Tail(todo)
           /\ UNCHANGED <<pc, outcome, sizeVars, listVars, scanVars>>
      ELSE /\ Finish("IOError")
           /\ UNCHANGED copied

Into(dir, imgs) == [j \in 1..Len(imgs) |-> <<dir, imgs[j]>>]

\* the directory check shared by the two operations that refuse an existing output_dir
RefusesNever(existing) == FALSE
Refuses(existing) == "." \in existing

\* ------------------------------------------- create_dataset_from_annotations
\* the order in which the image loop visits the records
MatOrderReversed(images) == [j \in 1..Len(images) |-> images[Len(images) + 1 - j]]
MatOrder(images) == images

create_dataset_from_annotations ==
  /\ pc = "idle" /\ calls < client_calls
  /\ \E jf \in JsonArgs :
       /\ json_file' = jf
       /\ Called("materialize")
       /\ UNCHANGED <<envVars, split, supercategory, num_testimages_per_class,
                      copied, written, json_copied>>
       /\ IF ~IsFile(jf)
          THEN Finish("AssertionError") /\ UNCHANGED dirs
          ELSE IF Refuses(dirs)
          THEN Finish("returned") /\ UNCHANGED dirs
          ELSE /\ dirs' = dirs \cup {".", "images"}
               /\ pc' = "mat_copy" /\ outcome' = "running"
               /\ todo' = Into("images", MatOrder(data.images))
               /\ UNCHANGED <<sizeVars, listVars, scanVars>>

MatCopyImage ==
  /\ pc = "mat_copy" /\ todo # <<>>
  /\ CopyHead
  /\ UNCHANGED <<envVars, dirs, written, json_copied, op, calls, argVars>>

MatCopyJson ==
  /\ pc = "mat_copy" /\ todo = <<>>
  /\ json_copied' = TRUE
  /\ Finish("returned")
  /\ UNCHANGED <<envVars, dirs, copied, written, op, calls, argVars>>

\* ------------------------------------------------------- random.sample(l, len(l))
\* every ordering of the list
Shuffles(list) ==
  LET n == Len(list)
  IN  {[j \in 1..n |-> list[p[j]]] :
         p \in {q \in [1..n -> 1..n] : \A a, b \in 1..n : q[a] = q[b] => a = b}}

\* ------------------------------------------------------ create_dataset_split
NumTrain(n, s) == PyInt(n * s.num[1], s.den)
NumVal(n, s) == PyInt(n * s.num[2], s.den)
NumTest(n, s) == n - NumTrain(n, s) - NumVal(n, s)

TrainBlock(shuffled, n_train) == PySlice(shuffled, 0, n_train)
ValBlockFromZero(shuffled, n_train, n_val) == PySlice(shuffled, 0, n_val)
ValBlock(shuffled, n_train, n_val) == PySlice(shuffled, n_train, n_train + n_val)
TestBlock(shuffled, n_train, n_val, n) == PySlice(shuffled, n_train + n_val, n)

\* the in-memory annotations and the categories after the supercategory branch
CollapseKeepsIds(annos, sc) == annos
Collapse(annos, sc) ==
  IF sc[1] = TRUE
  THEN [j \in 1..Len(annos) |-> [annos[j] EXCEPT !.category_id = 1]]
  ELSE annos
SingleCategory(label) ==
  <<[id |-> 1, name |-> label, supercategory |-> "", color |-> "#df3ccd"]>>
CategAll(categories, sc) == IF sc[1] = TRUE THEN SingleCategory(sc[2]) ELSE categories

\* [anno for anno in annotations if anno['image_id'] in img_ids]
AnnosOfAll(annos, img_ids) == annos
AnnosOf(annos, img_ids) == SelectSeq(annos, LAMBDA anno : InList(anno.image_id, img_ids))

JsonDict(imgs, annos, categories) ==
  [images |-> imgs, annotations |-> annos, categories |-> categories]

\* open(name, 'w') and json.dump
Write(files, name, dict) ==
  [n \in DOMAIN files \cup {name} |-> IF n = name THEN dict ELSE files[n]]

create_dataset_split ==
  /\ pc = "idle" /\ calls < client_calls
  /\ \E jf \in JsonArgs, s \in Splits(SplitDen), sc \in SupercategoryArgs :
       /\ json_file' = jf /\ split' = s /\ supercategory' = sc
       /\ Called("split")
       /\ UNCHANGED <<envVars, num_testimages_per_class, copied, written, json_copied>>
       /\ IF ~IsFile(jf) \/ ~SumIsOne(s)
          THEN Finish("AssertionError") /\ UNCHANGED dirs
          ELSE IF Refuses(dirs)
          THEN Finish("returned") /\ UNCHANGED dirs
          ELSE /\ dirs' = dirs \cup {".", "training", "validation", "test"}
               /\ pc' = "split_load" /\ outcome' = "running"
               /\ UNCHANGED localVars

\* load the data, size the subsets, shuffle and slice; orderings: what the
\* shuffle may return
SplitShuffleWith(orderings) ==
  /\ pc = "split_load"
  /\ num_images' = Len(data.images)
  /\ num_train' = NumTrain(num_images', split)
  /\ num_val' = NumVal(num_images', split)
  /\ num_test' = NumTest(num_images', split)
  /\ shuffled_imgs' \in orderings
  /\ imgs_train' = TrainBlock(shuffled_imgs', num_train')
  /\ imgs_val' = ValBlock(shuffled_imgs', num_train', num_val')
  /\ imgs_test' = TestBlock(shuffled_imgs', num_train', num_val', num_images')
  /\ pc' = "split_write"
  /\ UNCHANGED <<envVars, fsVars, op, outcome, calls, argVars, scanVars, todo>>

\* the supercategory branch, the three annotation lists and the three JSON files
SplitWrite ==
  /\ pc = "split_write"
  /\ LET annos == Collapse(data.annotations, supercategory)
         categ_all == CategAll(data.categories, supercategory)
         train_dict == JsonDict(imgs_train, AnnosOf(annos, Ids(imgs_train)), categ_all)
         val_dict == JsonDict(imgs_val, AnnosOf(annos, Ids(imgs_val)), categ_all)
         test_dict == JsonDict(imgs_test, AnnosOf(annos, Ids(imgs_test)), categ_all)
     IN  written' = Write(Write(Write(written, "training", train_dict),
                                "validation", val_dict), "test", test_dict)
  /\ todo' = Into("training", imgs_train) \o Into("validation", imgs_val)
                \o Into("test", imgs_test)
  /\ pc' = "split_copy"
  /\ UNCHANGED <<envVars, dirs, copied, json_copied, op, outcome, calls, argVars,
                 sizeVars, listVars, scanVars>>

SplitShuffle == SplitShuffleWith(Shuffles(data.images))

SplitCopyImage ==
  /\ pc = "split_copy" /\ todo # <<>>
  /\ CopyHead
  /\ UNCHANGED <<envVars, dirs, written, json_copied, op, calls, argVars>>

SplitReturn ==
  /\ pc = "split_copy" /\ todo = <<>>
  /\ Finish("returned")
  /\ UNCHANGED <<envVars, fsVars, op, calls, argVars>>

\* --------------------------------------------- create_dataset_split_balanced
\* for cat in cats: cat_count[cat] = cat_count[cat] + 1
RECURSIVE CountUp(_, _)
CountUp(counts, cats) ==
  IF cats = <<>> THEN counts
  ELSE CountUp([counts EXCEPT ![Head(cats)] = @ + 1], Tail(cats))

\* any(cat_count[cat] == 7 for cat in cats)
AtCap(counts, cats) == \E j \in 1..Len(cats) : counts[cats[j]] = SkipCount

\* [anno for anno in annotations if anno['image_id'] == img['id']]
AnnosOfImage(annos, img) == SelectSeq(annos, LAMBDA anno : anno.image_id = img.id)

\* [x for x in list if x not in other]
WithoutInverted(list, other) == SelectSeq(list, LAMBDA x : InList(x, other))
Without(list, other) == SelectSeq(list, LAMBDA x : ~InList(x, other))

\* imgs_temp, then imgs_train
TrainImagesKeepEmpty(shuffled, test, without_anno) == Without(shuffled, test)
TrainImages(shuffled, test, without_anno) ==
  Without(Without(shuffled, test), without_anno)

create_dataset_split_balanced ==
  /\ pc = "idle" /\ calls < client_calls
  /\ \E jf \in JsonArgs, cap \in NumTestArgs :
       /\ json_file' = jf /\ num_testimages_per_class' = cap
       /\ Called("balanced")
       /\ UNCHANGED <<envVars, split, supercategory, copied, written, json_copied>>
       /\ IF ~IsFile(jf)
          THEN Finish("AssertionError") /\ UNCHANGED dirs
          ELSE /\ dirs' = IF "." \in dirs THEN dirs
                          ELSE dirs \cup {".", "training", "test"}
               /\ pc' = "bal_load" /\ outcome' = "running"
               /\ UNCHANGED localVars

BalShuffle ==
  /\ pc = "bal_load"
  /\ num_images' = Len(data.images)
  /\ shuffled_imgs' \in Shuffles(data.images)
  /\ cat_count' = [id \in {data.categories[j].id : j \in 1..Len(data.categories)} |-> 0]
  /\ imgs_without_anno' = <<>> /\ imgs_test' = <<>>
  /\ pc' = "bal_scan"
  /\ UNCHANGED <<envVars, fsVars, op, outcome, calls, argVars, num_train, num_val,
                 num_test, imgs_train, imgs_val, scanned, skipped, todo>>

\* one iteration of the scan
BalScan ==
  /\ pc = "bal_scan" /\ scanned < Len(shuffled_imgs)
  /\ LET img == shuffled_imgs[scanned + 1]
         cats == CategoryIds(AnnosOfImage(data.annotations, img))
     IN  IF AtCap(cat_count, cats)
         THEN /\ skipped' = Append(skipped, img)
              /\ UNCHANGED <<cat_count, imgs_test, imgs_without_anno>>
         ELSE IF Len(cats) > 0
         THEN /\ cat_count' = CountUp(cat_count, cats)
              /\ imgs_test' = Append(imgs_test, img)
              /\ UNCHANGED <<imgs_without_anno, skipped>>
         ELSE /\ imgs_without_anno' = Append(imgs_without_anno, img)
              /\ UNCHANGED <<cat_count, imgs_test, skipped>>
  /\ scanned' = scanned + 1
  /\ UNCHANGED <<envVars, fsVars, pc, op, outcome, calls, argVars, sizeVars,
                 shuffled_imgs, imgs_train, imgs_val, todo>>

\* the training list, the two annotation lists and the two JSON files
BalWrite ==
  /\ pc = "bal_scan" /\ scanned = Len(shuffled_imgs)
  /\ imgs_train' = TrainImages(shuffled_imgs, imgs_test, imgs_without_anno)
  /\ LET categ_all == data.categories
         train_dict == JsonDict(imgs_train', AnnosOf(data.annotations, Ids(imgs_train')),
                                categ_all)
         test_dict == JsonDict(imgs_test, AnnosOf(data.annotations, Ids(imgs_test)),
                               categ_all)
     IN  written' = Write(Write(written, "training", train_dict), "test", test_dict)
  /\ todo' = Into("training", imgs_train') \o Into("test", imgs_test)
  /\ pc' = "bal_copy"
  /\ UNCHANGED <<envVars, dirs, copied, json_copied, op, outcome, calls, argVars,
                 sizeVars, shuffled_imgs, imgs_val, imgs_test, scanVars>>

BalCopyImage ==
  /\ pc = "bal_copy" /\ todo # <<>>
  /\ CopyHead
  /\ UNCHANGED <<envVars, dirs, written, json_copied, op, calls, argVars>>

BalReturn ==
  /\ pc = "bal_copy" /\ todo = <<>>
  /\ Finish("returned")
  /\ UNCHANGED <<envVars, fsVars, op, calls, argVars>>

\* ----------------------------------------------------------- specifications
Next ==
  \/ create_dataset_from_annotations \/ MatCopyImage \/ MatCopyJson
  \/ create_dataset_split \/ SplitShuffle \/ SplitWrite \/ SplitCopyImage \/ SplitReturn
  \/ create_dataset_split_balanced \/ BalShuffle \/ BalScan \/ BalWrite
  \/ BalCopyImage \/ BalReturn

Spec == Init /\ [][Next]_vars

\* calls in a row on the same output_dir; the input may hold an orphan annotation
InitRepeat == InitWith(MaxImagesRepeat, BOOLEAN, MaxCalls, {{}})
SpecRepeat == InitRepeat /\ [][Next]_vars

\* The sizing and slicing of create_dataset_split on its own: the call has passed
\* its assertions and made its directories; the image counts are the small ones
\* and the two of the documented examples, the fractions are twentieths, and of
\* the orderings the shuffle can return two are followed.
ExampleCounts == {100, 101}
Reversed(list) == [j \in 1..Len(list) |-> list[Len(list) + 1 - j]]
InitSizes ==
  /\ \E n \in (0..MaxSmallCount) \cup ExampleCounts :
       data = Dataset([i \in 1..n |-> <<>>], FALSE)
  /\ missing = {} /\ client_calls = 1
  /\ dirs = {".", "training", "validation", "test"}
  /\ copied = {} /\ written = NoFiles /\ json_copied = FALSE
  /\ pc = "split_load" /\ op = "split" /\ outcome = "running" /\ calls = 1
  /\ json_file = "annotations.json"
  /\ split \in {s \in Splits(FineDen) : SumIsOne(s)}
  /\ supercategory = <<FALSE, "">>
  /\ num_testimages_per_class = DefaultNumTestImages
  /\ NoLocals
SplitShuffleSample == SplitShuffleWith({data.images, Reversed(data.images)})
SpecSizes == InitSizes /\ [][SplitShuffleSample]_vars

\* ------------------------------------------------------------------ claims
Count(x, list) == Cardinality({k \in 1..Len(list) : list[k] = x})
InputIds == Ids(data.images)
SubsetNames == {"training", "validation", "test"}

\* no fraction of the split is negative
NonNegative(s) == \A k \in 1..3 : s.num[k] >= 0

\* list holds every input image id exactly once and nothing else
IsPartitionOfInput(list) ==
  /\ \A j \in 1..Len(InputIds) : Count(InputIds[j], list) = 1
  /\ \A k \in 1..Len(list) : InList(list[k], InputIds)

\* C1: create_dataset_split, non-negative split summing to 1 (image ids are unique
\* in every input): the image lists written to training.json, validation.json and
\* test.json hold every input image id exactly once between them, and no other id.
C1_SplitPartitions ==
  (op = "split" /\ NonNegative(split) /\ SubsetNames \subseteq DOMAIN written) =>
    IsPartitionOfInput(Ids(written["training"].images)
                       \o Ids(written["validation"].images)
                       \o Ids(written["test"].images))

\* three non-empty subsets written from a shuffle that changed the order
C1_Witness ==
  /\ op = "split" /\ pc = "split_copy" /\ NonNegative(split)
  /\ \A n \in SubsetNames : n \in DOMAIN written /\ Len(written[n].images) >= 1
  /\ shuffled_imgs # data.images

C3_BalancedPartitions ==
  (op = "balanced" /\ pc = "bal_copy") =>
    IsPartitionOfInput(Ids(imgs_train) \o Ids(imgs_test) \o Ids(imgs_without_anno))

\* the three are non-empty
C3_Witness ==
  /\ op = "balanced" /\ pc = "bal_copy"
  /\ imgs_train # <<>> /\ imgs_test # <<>> /\ imgs_without_anno # <<>>

\* the ids of the input annotations that reference an image of imgs, in input order
AnnoIdsOf(imgs) ==
  LET kept == SelectSeq(data.annotations, LAMBDA a : InList(a.image_id, Ids(imgs)))
  IN  [k \in 1..Len(kept) |-> kept[k].id]
InputAnno(id) ==
  CHOOSE a \in {data.annotations[k] : k \in 1..Len(data.annotations)} : a.id = id

\* C4: both splitters: the annotation list of every subset JSON is exactly the input
\* annotations whose image_id is the id of an image of that subset, in input order:
\* each written annotation references an image of its own subset, and an annotation
\* whose image_id matches no input image is in no subset.
C4_AnnotationsFollowImages ==
  \A n \in DOMAIN written :
    LET f == written[n] IN
    /\ [k \in 1..Len(f.annotations) |-> f.annotations[k].id] = AnnoIdsOf(f.images)
    /\ \A k \in 1..Len(f.annotations) :
         /\ InList(f.annotations[k].image_id, Ids(f.images))
         /\ InList(f.annotations[k].image_id, InputIds)
         /\ f.annotations[k].image_id = InputAnno(f.annotations[k].id).image_id

\* the balanced splitter has rewritten training.json and test.json beside the
\* validation.json the proportional splitter left; both hold annotations and the
\* input has an orphan annotation
C4_Witness ==
  /\ op = "balanced" /\ pc = "bal_copy" /\ calls = 2
  /\ "validation" \in DOMAIN written /\ written["validation"].annotations # <<>>
  /\ written["training"].annotations # <<>> /\ written["test"].annotations # <<>>
  /\ \E k \in 1..Len(data.annotations) : ~InList(data.annotations[k].image_id, InputIds)

\* C5: create_dataset_split: with supercategory[0] true every annotation of the
\* three files has category_id 1 and the categories of each file are the single
\* category with id 1 and name supercategory[1]; with supercategory[0] false the
\* categories of each file are the input categories and every written annotation
\* is an input annotation unchanged.
C5_Supercategory ==
  (op = "split" /\ SubsetNames \subseteq DOMAIN written) =>
    \A n \in SubsetNames :
      LET f == written[n] IN
      IF supercategory[1]
      THEN /\ Len(f.categories) = 1
           /\ f.categories[1].id = 1 /\ f.categories[1].name = supercategory[2]
           /\ \A k \in 1..Len(f.annotations) : f.annotations[k].category_id = 1
      ELSE /\ f.categories = data.categories
           /\ \A k \in 1..Len(f.annotations) :
                f.annotations[k] = InputAnno(f.annotations[k].id)

\* collapse on: a written annotation whose input category was 2
C5_Witness ==
  /\ op = "split" /\ SubsetNames \subseteq DOMAIN written /\ supercategory[1]
  /\ \E n \in SubsetNames : \E k \in 1..Len(written[n].annotations) :
       InputAnno(written[n].annotations[k].id).category_id = 2

\* a call of one of the two refusing operations begins while output_dir exists
RefusedCall ==
  /\ calls' = calls + 1 /\ op' \in {"materialize", "split"}
  /\ "." \in dirs
AssertionsHold == IsFile(json_file') /\ (op' = "split" => SumIsOne(split'))

\* C6 as stated: create_dataset_from_annotations and create_dataset_split, called
\* while output_dir exists, return without raising and leave the filesystem as it was.
C6_AsStated ==
  [][RefusedCall => (pc' = "idle" /\ outcome' = "returned" /\ fsVars' = fsVars)]_vars

\* C6 amended: called while output_dir exists, the two operations leave the
\* filesystem as it was; they return without raising when json_file is a file and
\* (create_dataset_split) the split sums to 1, and raise the assertion otherwise.
C6_RefusalLeavesFilesystem ==
  [][RefusedCall =>
       /\ pc' = "idle" /\ fsVars' = fsVars
       /\ outcome' = IF AssertionsHold THEN "returned" ELSE "AssertionError"]_vars

\* a materializer call aborted on a missing image, and the second call, of the
\* proportional splitter with valid arguments, returned
C6_Witness ==
  /\ calls = 2 /\ op = "split" /\ pc = "idle" /\ outcome = "returned"
  /\ "images" \in dirs /\ ~json_copied /\ copied # {}
  /\ written = NoFiles /\ "training" \notin dirs

\* the test images that carry an annotation of category c
TestImagesOf(c) ==
  {j \in 1..Len(imgs_test) :
     \E k \in 1..Len(data.annotations) :
       /\ data.annotations[k].image_id = imgs_test[j].id
       /\ data.annotations[k].category_id = c}

\* C7: create_dataset_split_balanced with num_testimages_per_class = 7: during the
\* scan and at its end each category's counter is at most 7, and at most 7 test
\* images carry an annotation of any one category.
C7_CountersAtMostSeven ==
  (op = "balanced" /\ pc \in {"bal_scan", "bal_copy"}
     /\ num_testimages_per_class = DefaultNumTestImages) =>
    \A c \in DOMAIN cat_count :
      /\ cat_count[c] <= DefaultNumTestImages
      /\ Cardinality(TestImagesOf(c)) <= DefaultNumTestImages

\* C8: create_dataset_split_balanced, every num_testimages_per_class: an annotated
\* image met by the scan is kept out of the test subset exactly when the counter of
\* one of its categories equals num_testimages_per_class; otherwise it is appended
\* to the test subset and the counters of its categories grow.
C8_SkipAtParameter ==
  [][(pc = "bal_scan" /\ scanned' = scanned + 1) =>
       LET img == shuffled_imgs[scanned + 1]
           cats == CategoryIds(SelectSeq(data.annotations,
                                         LAMBDA a : a.image_id = img.id))
           reached == \E j \in 1..Len(cats) :
                        cat_count[cats[j]] = num_testimages_per_class
       IN  Len(cats) > 0 =>
             IF reached
             THEN imgs_test' = imgs_test /\ cat_count' = cat_count
             ELSE /\ imgs_test' = Append(imgs_test, img)
                  /\ \A j \in 1..Len(cats) : cat_count'[cats[j]] > cat_count[cats[j]]]_vars

\* C9 as stated: an image the scan skipped is in the image list of neither
\* training.json nor test.json.
C9_AsStated ==
  (op = "balanced" /\ pc = "bal_copy") =>
    \A j \in 1..Len(skipped) :
      /\ ~InList(skipped[j], written["training"].images)
      /\ ~InList(skipped[j], written["test"].images)

\* C9 amended: an image the scan skipped is not in the image list of test.json and
\* is in the image list of training.json.
C9_SkippedGoToTraining ==
  (op = "balanced" /\ pc = "bal_copy") =>
    \A j \in 1..Len(skipped) :
      /\ InList(skipped[j], written["training"].images)
      /\ ~InList(skipped[j], written["test"].images)

\* the scan skipped an image
C9_Witness == op = "balanced" /\ pc = "bal_copy" /\ skipped # <<>>

\* the copies of the first k image records
FirstCopies(k) == {<<"images", data.images[j].id>> : j \in 1..k}
FirstMissing ==
  CHOOSE k \in 1..Len(data.images) :
    /\ data.images[k].id \in missing
    /\ \A j \in 1..(k - 1) : data.images[j].id \notin missing

\* C10: create_dataset_from_annotations copies the images in the order of the
\* records and the annotation file last: the annotation file is in output_dir only
\* if every record's image is in output_dir/images/; when the file of record k is
\* missing the call aborts with output_dir and output_dir/images/ made, the images
\* of the first k-1 records copied, and no annotation file in output_dir.
C10_ImagesThenAnnotationFile ==
  /\ json_copied => copied = FirstCopies(Len(data.images))
  /\ op = "materialize" => \E k \in 0..Len(data.images) : copied = FirstCopies(k)
  /\ (op = "materialize" /\ outcome = "IOError") =>
       /\ {".", "images"} \subseteq dirs
       /\ copied = FirstCopies(FirstMissing - 1)
       /\ ~json_copied

\* the call aborted on a record that is not the first
C10_Witness ==
  /\ op = "materialize" /\ outcome = "IOError" /\ pc = "idle"
  /\ copied # {} /\ Cardinality(copied) < Len(data.images) - 1

====
